---- MODULE Spec2Model ----
(***************************************************************************)
(* Model of today.py: the GitHub statistics aggregator (GitHubStats), the  *)
(* SVG renderer (generate_svg), the README cache-busting rewrite           *)
(* (update_readme_cache_busting) and the driver (main).                    *)
(*                                                                         *)
(* Text (names, descriptions, README and SVG text) is a sequence of         *)
(* one-character strings; None where text is expected is the empty text,   *)
(* which every "x or default" and "x if x else y" of the code treats alike.  A Python dict is a        *)
(* sequence of <<key, value>> pairs in insertion order, or a TLA+ function *)
(* when its order is never observed.                                       *)
(***************************************************************************)
EXTENDS Integers, Sequences, FiniteSets, TLC

VARIABLES pc, userLog, user_data, repos, page, pageLog, total_stars, top_repos,
          lang_i, language_bytes, langLog, warnings, stats, raised,
          written, readme_in, readme_out, fin, fout

vars == <<pc, userLog, user_data, repos, page, pageLog, total_stars, top_repos,
          lang_i, language_bytes, langLog, warnings, stats, raised,
          written, readme_in, readme_out, fin, fout>>

----------------------------------------------------------------------------
(* Bounds of the model *)

MaxPages == 2
MaxPageLen == 2
MaxRepos == 2
MaxStars == 1
MaxListing == 4
MaxLangs == 6
MaxBytes == 2
MaxFrags == 4
MaxSvgRepos == 2
MaxSvgLangs == 2

----------------------------------------------------------------------------
(* Values *)

None == "None"
QUOTE == "\""

PER_PAGE == 100
TOP_REPOS == 3
TOP_LANGS == 5

Min(a, b) == IF a < b THEN a ELSE b

RECURSIVE SumSeq(_)
SumSeq(s) == IF s = <<>> THEN 0 ELSE Head(s) + SumSeq(Tail(s))

RECURSIVE Concat(_)
Concat(ss) == IF ss = <<>> THEN <<>> ELSE Head(ss) \o Concat(Tail(ss))

----------------------------------------------------------------------------
(* The remote API: what the three endpoints may answer.  A response is a  *)
(* record: ok = FALSE is a transport failure or a non-success status (what *)
(* raise_for_status raises on), ok = TRUE carries the decoded JSON body.   *)

USERNAME == <<"k", "h", "o", "l", "c", "o", "m", "b">>

FullProfile == [name |-> <<"K">>, bio |-> <<"b">>, followers |-> 10,
                following |-> 5, public_repos |-> 2]

DropKeys(d, ks) == [k \in (DOMAIN d) \ ks |-> d[k]]

NoDict == DropKeys(FullProfile, DOMAIN FullProfile)

ProfileResponses ==
    {[ok |-> FALSE, data |-> NoDict]} \cup
    {[ok |-> TRUE, data |-> DropKeys(FullProfile, ks)] :
        ks \in {{}, {"followers"}, {"public_repos"}}}

RepoNames == <<<<"r", "1">>, <<"r", "2">>, <<"r", "3">>, <<"r", "4">>,
              <<"r", "5">>, <<"r", "6">>, <<"r", "7">>, <<"r", "8">>>>

GO == <<"G", "o">>

RUST == <<"R", "u", "s", "t">>

RepoShapes == [fork : BOOLEAN, stargazers_count : 0..MaxStars]

MkRepo(shape, n) ==
    [name |-> RepoNames[n],
     fork |-> shape.fork,
     stargazers_count |-> shape.stargazers_count,
     language |-> IF shape.stargazers_count = 0 THEN <<>> ELSE GO,
     description |-> IF shape.fork THEN <<"d">> ELSE <<>>]

PageShapes(room) ==
    UNION {[1..n -> RepoShapes] : n \in 1..Min(MaxPageLen, room)}

MkPage(shapes, base) == [j \in 1..Len(shapes) |-> MkRepo(shapes[j], base + j)]

\* A page answer: failure, the empty list, or (while the bounds leave room)
\* a non-empty list of repositories.
PageResponses(have, nonEmptySoFar) ==
    {[ok |-> FALSE, data |-> <<>>], [ok |-> TRUE, data |-> <<>>]} \cup
    (IF nonEmptySoFar < MaxPages
     THEN {[ok |-> TRUE, data |-> MkPage(sh, have)] :
              sh \in PageShapes(MaxRepos - have)}
     ELSE {})

\* One entry of a language breakdown: numeric = FALSE is a JSON value that
\* is not a number (null, a string), on which "+" raises TypeError.
L(lang, n) == [lang |-> lang, bytes |-> n, numeric |-> TRUE]

LBad(lang) == [lang |-> lang, bytes |-> 0, numeric |-> FALSE]

LangResponses ==
    {[ok |-> FALSE, data |-> <<>>],
     [ok |-> TRUE, data |-> <<>>],
     [ok |-> TRUE, data |-> <<L(GO, 0)>>],
     [ok |-> TRUE, data |-> <<L(GO, 1)>>],
     [ok |-> TRUE, data |-> <<L(RUST, 2), L(GO, 1)>>],
     [ok |-> TRUE, data |-> <<L(GO, 1), LBad(RUST)>>]}

----------------------------------------------------------------------------
(* GitHubStats.fetch_repos: one iteration of the while loop *)

PageRequest(pg) == [page |-> pg, per_page |-> PER_PAGE]

\* variant: requests the same page again after a non-empty one
FetchReposStepNoAdvance(rs, pg, resp) ==
    IF ~resp.ok THEN [ctl |-> "raise", repos |-> rs, page |-> pg]
    ELSE IF resp.data = <<>> THEN [ctl |-> "return", repos |-> rs, page |-> pg]
    ELSE [ctl |-> "loop", repos |-> rs \o resp.data, page |-> pg]

\* variant: a failed page ends the listing with what was fetched so far
FetchReposStepPartial(rs, pg, resp) ==
    IF ~resp.ok \/ resp.data = <<>>
    THEN [ctl |-> "return", repos |-> rs, page |-> pg]
    ELSE [ctl |-> "loop", repos |-> rs \o resp.data, page |-> pg + 1]

FetchReposStep(rs, pg, resp) ==
    IF ~resp.ok THEN [ctl |-> "raise", repos |-> rs, page |-> pg]
    ELSE IF resp.data = <<>> THEN [ctl |-> "return", repos |-> rs, page |-> pg]
    ELSE [ctl |-> "loop", repos |-> rs \o resp.data, page |-> pg + 1]

----------------------------------------------------------------------------
(* GitHubStats.calculate_stats: owned repositories, stars, top repositories *)

\* variant: no fork filter
AllRepos(rs) == rs

OwnedRepos(rs) == SelectSeq(rs, LAMBDA r : ~r.fork)

TotalStars(owned) ==
    SumSeq([i \in 1..Len(owned) |-> owned[i].stargazers_count])

\* variant: an element goes before the elements with an equal key
InsertDescBeforeEqual(s, kv) ==
    LET n == Cardinality({i \in 1..Len(s) : s[i][1] > kv[1]})
    IN  SubSeq(s, 1, n) \o <<kv>> \o SubSeq(s, n + 1, Len(s))

\* sorted(..., reverse=True) is a stable sort: descending keys, equal keys in
\* their original order.  s is sorted; kv = <<key, item>> goes after every
\* element whose key is at least its own.
InsertDesc(s, kv) ==
    LET n == Cardinality({i \in 1..Len(s) : s[i][1] >= kv[1]})
    IN  SubSeq(s, 1, n) \o <<kv>> \o SubSeq(s, n + 1, Len(s))

RECURSIVE SortedDescFrom(_, _)
SortedDescFrom(acc, kvs) ==
    IF kvs = <<>> THEN acc
    ELSE SortedDescFrom(InsertDesc(acc, Head(kvs)), Tail(kvs))

SortedDesc(kvs) == SortedDescFrom(<<>>, kvs)

Take(s, n) == SubSeq(s, 1, Min(n, Len(s)))

TopRepos(owned) ==
    LET sorted == SortedDesc([i \in 1..Len(owned) |->
                                <<owned[i].stargazers_count, owned[i]>>])
    IN  Take([i \in 1..Len(sorted) |-> sorted[i][2]], TOP_REPOS)

NO_DESCRIPTION == <<"N", "o", " ", "d", "e", "s", "c", "r", "i", "p", "t", "i", "o", "n">>

NO_LANGUAGE == <<"N", "/", "A">>

TopReposData(top) ==
    [i \in 1..Len(top) |->
        [name |-> top[i].name,
         description |-> IF top[i].description = <<>> THEN NO_DESCRIPTION
                         ELSE top[i].description,
         stars |-> top[i].stargazers_count,
         language |-> IF top[i].language = <<>> THEN NO_LANGUAGE
                      ELSE top[i].language]]

----------------------------------------------------------------------------
(* GitHubStats.fetch_language_stats: the body of one loop iteration *)

DictHas(d, k) == \E i \in 1..Len(d) : d[i][1] = k

DictGet(d, k, default) ==
    IF DictHas(d, k) THEN d[CHOOSE i \in 1..Len(d) : d[i][1] = k][2]
    ELSE default

\* d[k] = v: an existing key keeps its position, a new key goes last
DictSet(d, k, v) ==
    IF DictHas(d, k) THEN [i \in 1..Len(d) |-> IF d[i][1] = k THEN <<k, v>> ELSE d[i]]
    ELSE Append(d, <<k, v>>)

\* for lang, bytes_count in lang_data.items(): language_bytes[lang] = ... ;
\* stops at the first entry whose addition raises
RECURSIVE AccumulateLangs(_, _)
AccumulateLangs(lb, data) ==
    IF data = <<>> THEN [language_bytes |-> lb, exc |-> None]
    ELSE IF ~Head(data).numeric THEN [language_bytes |-> lb, exc |-> "TypeError"]
    ELSE AccumulateLangs(
            DictSet(lb, Head(data).lang, DictGet(lb, Head(data).lang, 0) + Head(data).bytes),
            Tail(data))

\* the try block with its except clause: every exception is caught
FetchLanguageBody(lb, resp) ==
    IF ~resp.ok THEN [language_bytes |-> lb, exc |-> "HTTPError"]
    ELSE AccumulateLangs(lb, resp.data)

----------------------------------------------------------------------------
(* GitHubStats.calculate_stats: percentages and the stats record.  A       *)
(* percentage is the exact fraction num/den (bytes * 100 over total bytes). *)

TotalBytes(lb) == SumSeq([i \in 1..Len(lb) |-> lb[i][2]])

\* variant: percentages normalised against the retained languages only
LanguagePercentagesOfRetained(lb) ==
    LET sorted == SortedDesc([i \in 1..Len(lb) |-> <<lb[i][2], lb[i][1]>>])
        top == Take(sorted, TOP_LANGS)
        total == SumSeq([i \in 1..Len(top) |-> top[i][1]])
    IN  IF total > 0
        THEN [i \in 1..Len(top) |->
                [lang |-> top[i][2], num |-> top[i][1] * 100, den |-> total]]
        ELSE <<>>

\* variant: a zero total reports every retained language at 0 percent
LanguagePercentagesZeroFilled(lb) ==
    LET total == TotalBytes(lb)
        sorted == SortedDesc([i \in 1..Len(lb) |-> <<lb[i][2], lb[i][1]>>])
        top == Take(sorted, TOP_LANGS)
    IN  [i \in 1..Len(top) |->
            [lang |-> top[i][2],
             num |-> IF total > 0 THEN top[i][1] * 100 ELSE 0,
             den |-> IF total > 0 THEN total ELSE 1]]

LanguagePercentages(lb) ==
    LET total == TotalBytes(lb)
        sorted == SortedDesc([i \in 1..Len(lb) |-> <<lb[i][2], lb[i][1]>>])
        top == Take(sorted, TOP_LANGS)
    IN  IF total > 0
        THEN [i \in 1..Len(top) |->
                [lang |-> top[i][2], num |-> top[i][1] * 100, den |-> total]]
        ELSE <<>>

\* variant: absent profile fields read as 0 instead of raising
BuildStatsLenient(ud, stars, pcts, top, now) ==
    LET get(k) == IF k \in DOMAIN ud THEN ud[k] ELSE 0
    IN  [exc |-> None,
         stats |-> <<[username |-> USERNAME,
                      name |-> IF "name" \in DOMAIN ud THEN ud["name"] ELSE USERNAME,
                      bio |-> IF "bio" \in DOMAIN ud THEN ud["bio"] ELSE <<>>,
                      followers |-> get("followers"),
                      following |-> get("following"),
                      public_repos |-> get("public_repos"),
                      total_stars |-> stars,
                      language_percentages |-> pcts,
                      top_repos |-> top,
                      updated_at |-> now]>>]

RequiredKeys == {"followers", "following", "public_repos"}

\* The dict literal of lines 97-108: user_data['followers'] and the like
\* raise KeyError on an absent key, .get() does not.
BuildStats(ud, stars, pcts, top, now) ==
    IF RequiredKeys \subseteq DOMAIN ud
    THEN [exc |-> None,
          stats |-> <<[username |-> USERNAME,
                       name |-> IF "name" \in DOMAIN ud THEN ud["name"] ELSE USERNAME,
                       bio |-> IF "bio" \in DOMAIN ud THEN ud["bio"] ELSE <<>>,
                       followers |-> ud["followers"],
                       following |-> ud["following"],
                       public_repos |-> ud["public_repos"],
                       total_stars |-> stars,
                       language_percentages |-> pcts,
                       top_repos |-> top,
                       updated_at |-> now]>>]
    ELSE [exc |-> "KeyError", stats |-> <<>>]

----------------------------------------------------------------------------
(* generate_svg.  The document is the sequence of its elements in document *)
(* order; an element carries its class, its y position and the parts of    *)
(* its text, each part marked with where it comes from: the template, a    *)
(* string field of stats (after html.escape), or a formatted number.  The  *)
(* box-drawing characters and the star of the template are written with    *)
(* the ASCII characters + - | *; x positions and the style sheet are left  *)
(* out, and of the two columns only the rows that show a field of stats    *)
(* (and one constant row) are kept, the others counting for the height.    *)

\* s.replace(c, r) from pos on: copy up to the next c, put r, go on after it
RECURSIVE ReplaceFrom(_, _, _, _)
ReplaceFrom(s, pos, c, r) ==
    LET at == {j \in pos..Len(s) : s[j] = c}
    IN  IF at = {} THEN SubSeq(s, pos, Len(s))
        ELSE LET j == CHOOSE m \in at : \A k \in at : m <= k
             IN  SubSeq(s, pos, j - 1) \o r \o ReplaceFrom(s, j + 1, c, r)

ReplaceChar(s, c, r) == ReplaceFrom(s, 1, c, r)

\* variant: html.escape(s, quote=False)
HtmlEscapeNoQuote(s) ==
    ReplaceChar(ReplaceChar(ReplaceChar(s,
        "&", <<"&", "a", "m", "p", ";">>),
        "<", <<"&", "l", "t", ";">>),
        ">", <<"&", "g", "t", ";">>)

\* html.escape(s): & first, then < and >, then the two quotes
HtmlEscape(s) ==
    ReplaceChar(ReplaceChar(ReplaceChar(ReplaceChar(ReplaceChar(s,
        "&", <<"&", "a", "m", "p", ";">>),
        "<", <<"&", "l", "t", ";">>),
        ">", <<"&", "g", "t", ";">>),
        QUOTE, <<"&", "q", "u", "o", "t", ";">>),
        "'", <<"&", "#", "x", "2", "7", ";">>)

DigitChars == <<"0", "1", "2", "3", "4", "5", "6", "7", "8", "9">>

\* str(n) for n >= 0
RECURSIVE Digits(_)
Digits(n) ==
    IF n < 10 THEN <<DigitChars[n + 1]>>
    ELSE Digits(n \div 10) \o <<DigitChars[(n % 10) + 1]>>

\* f"{percentage:.1f}" of the fraction num/den: tenths, rounded half to even
Fixed1(num, den) ==
    LET q == (num * 10) \div den
        r == (num * 10) % den
        t == IF 2 * r > den \/ (2 * r = den /\ q % 2 = 1) THEN q + 1 ELSE q
    IN  Digits(t \div 10) \o <<".">> \o Digits(t % 10)

Rep(c, n) == [i \in 1..n |-> c]

Template(text) == [src |-> "template", text |-> text]

Field(text) == [src |-> "field", text |-> text]

Number(text) == [src |-> "number", text |-> text]

Text(class, y, parts) ==
    [tag |-> "text", class |-> class, y |-> y, parts |-> parts, w |-> <<0, 1>>]

Rect(color, y, w) ==
    [tag |-> "rect", class |-> color, y |-> y, parts |-> <<>>, w |-> w]

\* the palette of a theme (lines 117-135)
Palette(theme) ==
    IF theme = "light"
    THEN [bg_color |-> "#fdf6e3", text_color |-> "#657b83",
          key_color |-> "#cb4b16", value_color |-> "#268bd2",
          border_color |-> "#93a1a1", ascii_color |-> "#657b83",
          comment_color |-> "#93a1a1"]
    ELSE [bg_color |-> "#002b36", text_color |-> "#839496",
          key_color |-> "#cb4b16", value_color |-> "#268bd2",
          border_color |-> "#586e75", ascii_color |-> "#839496",
          comment_color |-> "#586e75"]

CHART_COLORS == <<"#268bd2", "#859900", "#b58900", "#dc322f", "#6c71c4">>

Y_START == 100
LINE_HEIGHT == 24
LEFT_ROWS == 23
RIGHT_ROWS == 21
BAR_HEIGHT == 20
MAX_BAR_WIDTH == 400
DESC_MAX == 70

DisplayName(st) == IF st.name # <<>> THEN st.name ELSE st.username

\* left_column_data (st is the stats record): rows 0, 1, 2 and 3 of the list.  custom says whether
\* the row has a custom colour, src where its value comes from.
LeftColumnData(st) ==
    <<[key |-> <<>>, value |-> st.username \o <<"@", "g", "i", "t", "h", "u", "b">>,
       custom |-> TRUE, src |-> "field"],
      [key |-> <<"s", "e", "p", "a", "r", "a", "t", "o", "r">>, value |-> Rep("-", 50),
       custom |-> TRUE, src |-> "template"],
      [key |-> <<"N", "a", "m", "e">>, value |-> DisplayName(st),
       custom |-> FALSE, src |-> "field"],
      [key |-> <<"R", "o", "l", "e">>, value |-> <<"S", "e", "n", "i", "o", "r", " ", "S", "e", "c", "u", "r", "i", "t", "y", " ", "E", "n", "g", "i", "n", "e", "e", "r">>,
       custom |-> FALSE, src |-> "template"]>>

\* the body of the loop over left_column_data (lines 208-223), i from 0
LeftRow(row, i) ==
    LET y_pos == Y_START + i * LINE_HEIGHT
    IN  IF row.key = <<"d", "i", "v", "i", "d", "e", "r">>
        THEN <<Text("comment", y_pos, <<Template(Rep("-", 40))>>)>>
        ELSE IF row.key = <<"s", "e", "p", "a", "r", "a", "t", "o", "r">>
        THEN <<Text("comment", y_pos, <<[src |-> row.src, text |-> HtmlEscape(row.value)]>>)>>
        ELSE IF row.custom
        THEN <<Text("comment", y_pos, <<Template(HtmlEscape(row.key))>>)>>
        ELSE IF row.key = <<>>
        THEN <<Text("value", y_pos, <<[src |-> row.src, text |-> HtmlEscape(row.value)]>>)>>
        ELSE <<Text("key", y_pos, <<Template(HtmlEscape(row.key) \o <<":">>)>>)>> \o
             (IF row.value # <<>>
              THEN <<Text("value", y_pos, <<[src |-> row.src, text |-> HtmlEscape(row.value)]>>)>>
              ELSE <<>>)

InfoLines(st) ==
    LET rows == LeftColumnData(st)
    IN  Concat([i \in 1..Len(rows) |-> LeftRow(rows[i], i - 1)])

ColumnEndY == Y_START + (IF LEFT_ROWS < RIGHT_ROWS THEN RIGHT_ROWS ELSE LEFT_ROWS) * LINE_HEIGHT

BoxTop == <<"+">> \o Rep("-", 82) \o <<"+">>

BoxHeader(y, title) ==
    <<Text("comment", y, <<Template(BoxTop)>>),
      Text("comment", y + 20, <<Template(<<"|">>)>>),
      Text("key", y + 20, <<Template(title)>>),
      Text("comment", y + 20, <<Template(<<"|">>)>>),
      Text("comment", y + 35, <<Template(BoxTop)>>)>>

\* one bar of the language chart (lines 269-281), i from 0
LangBar(entry, i, chart_start_y) ==
    LET bar_y == chart_start_y + i * (BAR_HEIGHT + 10)
    IN  <<Text("comment", bar_y + 14, <<Template(<<"|">>)>>),
          Rect(CHART_COLORS[(i % Len(CHART_COLORS)) + 1], bar_y,
               <<entry.num * MAX_BAR_WIDTH, entry.den * 100>>),
          Text("header", bar_y + 14, <<Field(HtmlEscape(entry.lang))>>),
          Text("value", bar_y + 14,
               <<Number(Fixed1(entry.num, entry.den)), Template(<<"%">>)>>),
          Text("comment", bar_y + 14, <<Template(<<"|">>)>>)>>

\* lines 252-288: the elements of the chart and the y where it ends
LangChart(st, column_end_y) ==
    LET pcts == st.language_percentages
        chart_y == column_end_y + 40
        chart_start_y == chart_y + 55
        last_bar_y == chart_start_y + (Len(pcts) - 1) * (BAR_HEIGHT + 10)
        end_y == last_bar_y + BAR_HEIGHT + 10
    IN  IF pcts = <<>> THEN [elems |-> <<>>, end_y |-> column_end_y]
        ELSE [elems |-> BoxHeader(chart_y, <<"L", "a", "n", "g", "u", "a", "g", "e", " ", "D", "i", "s", "t", "r", "i", "b", "u", "t", "i", "o", "n">>) \o
                        Concat([i \in 1..Len(pcts) |-> LangBar(pcts[i], i - 1, chart_start_y)]) \o
                        <<Text("comment", end_y + 15, <<Template(BoxTop)>>)>>,
              end_y |-> end_y + 25]

\* line 322
Truncate(description) ==
    IF Len(description) > DESC_MAX
    THEN SubSeq(description, 1, DESC_MAX) \o <<".", ".", ".">>
    ELSE description

\* one project of the highlights (lines 307-331), i from 0
Project(repo, i, proj_y) ==
    LET y_offset == proj_y + i * 65
        side(y) == Text("comment", y, <<Template(<<"|">>)>>)
        stars_text == IF repo.stars > 0
                      THEN <<Template(<<"*", " ">>), Number(Digits(repo.stars))>>
                      ELSE <<>>
    IN  (IF i > 0 THEN <<Text("comment", y_offset - 10, <<Template(BoxTop)>>)>> ELSE <<>>) \o
        <<side(y_offset),
          Text("value", y_offset,
               <<Field(HtmlEscape(repo.name)), Template(<<" ", "<", "t", "s", "p", "a", "n", " ", "c", "l", "a", "s", "s", "=", "\"", "c", "o", "m", "m", "e", "n", "t", "\"", ">">>)>> \o
               stars_text \o <<Template(<<"<", "/", "t", "s", "p", "a", "n", ">">>)>>),
          side(y_offset),
          side(y_offset + 20),
          Text("comment", y_offset + 20, <<Field(HtmlEscape(Truncate(repo.description)))>>),
          side(y_offset + 20),
          side(y_offset + 38),
          Text("key", y_offset + 38, <<Field(HtmlEscape(repo.language))>>),
          side(y_offset + 38)>>

\* lines 290-337: the elements of the highlights and the y where they end
ProjectHighlights(st, chart_end_y) ==
    LET top == st.top_repos
        shown == Min(3, Len(top))
        highlights_y == chart_end_y + 40
        proj_y == highlights_y + 55
        end_y == proj_y + (shown - 1) * 65 + 50
    IN  IF top = <<>> THEN [elems |-> <<>>, end_y |-> chart_end_y]
        ELSE [elems |-> BoxHeader(highlights_y, <<"P", "r", "o", "j", "e", "c", "t", " ", "H", "i", "g", "h", "l", "i", "g", "h", "t", "s">>) \o
                        Concat([i \in 1..shown |-> Project(top[i], i - 1, proj_y)]) \o
                        <<Text("comment", end_y + 15, <<Template(BoxTop)>>)>>,
              end_y |-> end_y + 25]

GenerateSvg(st, theme) ==
    LET chart == LangChart(st, ColumnEndY)
        projects == ProjectHighlights(st, chart.end_y)
        footer_y == projects.end_y + 40
    IN  [height |-> footer_y + 60,
         palette |-> Palette(theme),
         elems |->
            <<Text("header", 60, <<Field(HtmlEscape(DisplayName(st))),
                                   Template(<<"'", "s", " ", "G", "i", "t", "H", "u", "b", " ", "P", "r", "o", "f", "i", "l", "e">>)>>)>> \o
            InfoLines(st) \o chart.elems \o projects.elems \o
            <<Text("footer", footer_y, <<Template(<<"L", "a", "s", "t", " ", "u", "p", "d", "a", "t", "e", "d", ":", " ">>),
                                         Field(HtmlEscape(st.updated_at))>>)>>]

----------------------------------------------------------------------------
(* update_readme_cache_busting: the two re.sub calls.  Text is a sequence  *)
(* of one-character strings.                                               *)

DARK_SVG == <<"d", "a", "r", "k", "_", "m", "o", "d", "e", ".", "s", "v", "g">>

LIGHT_SVG == <<"l", "i", "g", "h", "t", "_", "m", "o", "d", "e", ".", "s", "v", "g">>

QV == <<"?", "v", "=">>

StartsWithAt(s, pos, lit) ==
    /\ pos + Len(lit) - 1 <= Len(s)
    /\ SubSeq(s, pos, pos + Len(lit) - 1) = lit

\* [^"]+ is greedy: the length of the run of characters other than the
\* double quote that starts at pos (to the end of the text if no quote follows)
RunNotQuote(s, pos) ==
    LET stops == {j \in pos..Len(s) : s[j] = QUOTE}
    IN  IF stops = {} THEN Len(s) - pos + 1
        ELSE (CHOOSE j \in stops : \A k \in stops : j <= k) - pos

\* name(\?v=[^"]+)? tried at pos: the position after the match, 0 if none
MatchEnd(s, pos, name) ==
    IF ~StartsWithAt(s, pos, name) THEN 0
    ELSE LET q == pos + Len(name)
         IN  IF StartsWithAt(s, q, QV) /\ RunNotQuote(s, q + Len(QV)) >= 1
             THEN q + Len(QV) + RunNotQuote(s, q + Len(QV))
             ELSE q

MinOf(S) == CHOOSE j \in S : \A k \in S : j <= k

\* re.sub: leftmost non-overlapping matches, left to right; the text before
\* the next match is copied, the match replaced, the scan resumed after it
RECURSIVE ReSubFrom(_, _, _, _)
ReSubFrom(s, pos, name, repl) ==
    LET starts == {j \in pos..Len(s) : MatchEnd(s, j, name) # 0}
    IN  IF starts = {} THEN SubSeq(s, pos, Len(s))
        ELSE SubSeq(s, pos, MinOf(starts) - 1) \o repl \o
             ReSubFrom(s, MatchEnd(s, MinOf(starts), name), name, repl)

ReSub(name, timestamp, content) ==
    ReSubFrom(content, 1, name, name \o QV \o timestamp)

RewriteReadme(content, timestamp) ==
    ReSub(LIGHT_SVG, timestamp, ReSub(DARK_SVG, timestamp, content))

----------------------------------------------------------------------------
(* The run: main() calling calculate_stats, the writes and the rewrite *)

NOW == <<"J", "a", "n", "u", "a", "r", "y", " ", "0", "1", ",", " ", "2", "0", "2", "4", " ", "a", "t", " ", "1", "2", ":", "0", "0", " ", "A", "M", " ", "U", "T", "C">>

CACHE_TS == <<"2", "0", "2", "4", "-", "0", "1", "-", "0", "1", "-", "0", "0", "0", "0">>

\* README.md as main may find it: absent (the empty sequence of files) or
\* present with some text
PipelineReadmes ==
    {<<>>,
     <<<<"!", "[", "s", "]", "(", "d", "a", "r", "k", "_", "m", "o", "d", "e", ".", "s", "v", "g", "?", "v", "=", "o", "l", "d", ")", " ", "t">>>>,
     <<<<"<", "i", "m", "g", " ", "s", "r", "c", "=", "\"", "l", "i", "g", "h", "t", "_", "m", "o", "d", "e", ".", "s", "v", "g", "\"", "/", ">">>>>}

\* except Exception as e: print; raise
MainExcept(e) == e

\* the locals of a run before main has done anything
Fresh ==
    /\ userLog = <<>>
    /\ user_data = NoDict
    /\ repos = <<>>
    /\ page = 1
    /\ pageLog = <<>>
    /\ total_stars = 0
    /\ top_repos = <<>>
    /\ lang_i = 1
    /\ language_bytes = <<>>
    /\ langLog = <<>>
    /\ warnings = <<>>
    /\ stats = <<>>
    /\ raised = None
    /\ written = <<>>
    /\ readme_in = <<>>
    /\ readme_out = <<>>

Init ==
    /\ pc = "fetch_user_data"
    /\ Fresh
    /\ fin = <<>>
    /\ fout = <<>>

Abort(e) ==
    /\ pc' = "failed"
    /\ raised' = MainExcept(e)

\* fetch_user_data (lines 23-28)
FetchUserData ==
    /\ pc = "fetch_user_data"
    /\ \E resp \in ProfileResponses :
          /\ userLog' = Append(userLog, resp)
          /\ IF resp.ok
             THEN /\ user_data' = resp.data
                  /\ pc' = "fetch_repos"
                  /\ UNCHANGED raised
             ELSE /\ Abort("HTTPError")
                  /\ UNCHANGED user_data
    /\ UNCHANGED <<repos, page, pageLog, total_stars, top_repos, lang_i,
                   language_bytes, langLog, warnings, stats, written,
                   readme_in, readme_out, fin, fout>>

NonEmptyPages(log) ==
    Cardinality({i \in 1..Len(log) : log[i].resp.ok /\ log[i].resp.data # <<>>})

\* fetch_repos (lines 30-43): one request of the while loop
FetchReposPage ==
    /\ pc = "fetch_repos"
    /\ Len(pageLog) <= MaxPages + 1
    /\ \E resp \in PageResponses(Len(repos), NonEmptyPages(pageLog)) :
          LET r == FetchReposStep(repos, page, resp)
          IN  /\ pageLog' = Append(pageLog, [req |-> PageRequest(page), resp |-> resp])
              /\ repos' = r.repos
              /\ page' = r.page
              /\ IF r.ctl = "raise" THEN Abort("HTTPError")
                 ELSE /\ pc' = IF r.ctl = "return" THEN "owned" ELSE "fetch_repos"
                      /\ UNCHANGED raised
    /\ UNCHANGED <<userLog, user_data, total_stars, top_repos, lang_i, language_bytes,
                   langLog, warnings, stats, written, readme_in, readme_out,
                   fin, fout>>

\* calculate_stats lines 67-83
ComputeOwned ==
    /\ pc = "owned"
    /\ total_stars' = TotalStars(OwnedRepos(repos))
    /\ top_repos' = TopReposData(TopRepos(OwnedRepos(repos)))
    /\ lang_i' = 1
    /\ pc' = "fetch_language_stats"
    /\ UNCHANGED <<userLog, user_data, repos, page, pageLog, language_bytes, langLog,
                   warnings, stats, raised, written, readme_in, readme_out,
                   fin, fout>>

\* fetch_language_stats (lines 45-60): one iteration of the for loop
SkipsRepo(repo) == repo.fork

FetchLanguage ==
    /\ pc = "fetch_language_stats"
    /\ lang_i <= Len(repos)
    /\ lang_i' = lang_i + 1
    /\ IF SkipsRepo(repos[lang_i])
       THEN UNCHANGED <<language_bytes, langLog, warnings>>
       ELSE \E resp \in LangResponses :
               LET r == FetchLanguageBody(language_bytes, resp)
               IN  /\ language_bytes' = r.language_bytes
                   /\ langLog' = Append(langLog, [repo |-> lang_i, resp |-> resp])
                   /\ warnings' = IF r.exc = None THEN warnings
                                  ELSE Append(warnings, repos[lang_i].name)
    /\ UNCHANGED <<pc, userLog, user_data, repos, page, pageLog, total_stars, top_repos,
                   stats, raised, written, readme_in, readme_out, fin, fout>>

\* calculate_stats lines 89-110, after the loop of fetch_language_stats ends
AssembleStats ==
    /\ pc = "fetch_language_stats"
    /\ lang_i > Len(repos)
    /\ LET r == BuildStats(user_data, total_stars,
                           LanguagePercentages(language_bytes), top_repos, NOW)
       IN  /\ stats' = r.stats
           /\ IF r.exc = None
              THEN pc' = "write_light" /\ UNCHANGED raised
              ELSE Abort(r.exc)
    /\ UNCHANGED <<userLog, user_data, repos, page, pageLog, total_stars, top_repos,
                   lang_i, language_bytes, langLog, warnings, written,
                   readme_in, readme_out, fin, fout>>

\* a variant of the write step that swallows the failure and goes on to the
\* next output
WriteFileContinue(at, file, next) ==
    /\ pc = at
    /\ \E ok \in BOOLEAN :
          /\ written' = IF ok THEN Append(written, file) ELSE written
          /\ pc' = next
          /\ UNCHANGED raised
    /\ UNCHANGED <<userLog, user_data, repos, page, pageLog, total_stars, top_repos,
                   lang_i, language_bytes, langLog, warnings, stats,
                   readme_in, readme_out, fin, fout>>

\* main lines 456-470: a write either succeeds or raises OSError
WriteFile(at, file, next) ==
    /\ pc = at
    /\ \E ok \in BOOLEAN :
          IF ok
          THEN /\ written' = Append(written, file)
               /\ pc' = next
               /\ UNCHANGED raised
          ELSE /\ Abort("OSError")
               /\ UNCHANGED written
    /\ UNCHANGED <<userLog, user_data, repos, page, pageLog, total_stars, top_repos,
                   lang_i, language_bytes, langLog, warnings, stats,
                   readme_in, readme_out, fin, fout>>

WriteLight == WriteFile("write_light", "light_mode.svg", "write_dark")

WriteDark == WriteFile("write_dark", "dark_mode.svg", "write_cache")

WriteCache == WriteFile("write_cache", "cache/stats.json", "update_readme")

\* main lines 474-477 with update_readme_cache_busting (lines 404-436)
UpdateReadme ==
    /\ pc = "update_readme"
    /\ \E f \in PipelineReadmes :
          /\ readme_in' = f
          /\ IF f = <<>>
             THEN /\ readme_out' = f
                  /\ pc' = "done"
                  /\ UNCHANGED <<written, raised>>
             ELSE \E ok \in BOOLEAN :
                     IF ok
                     THEN /\ readme_out' = <<RewriteReadme(f[1], CACHE_TS)>>
                          /\ written' = Append(written, "README.md")
                          /\ pc' = "done"
                          /\ UNCHANGED raised
                     ELSE /\ readme_out' = f
                          /\ Abort("OSError")
                          /\ UNCHANGED written
    /\ UNCHANGED <<userLog, user_data, repos, page, pageLog, total_stars, top_repos,
                   lang_i, language_bytes, langLog, warnings, stats, fin, fout>>

Next ==
    \/ FetchUserData
    \/ FetchReposPage
    \/ ComputeOwned
    \/ FetchLanguage
    \/ AssembleStats
    \/ WriteLight
    \/ WriteDark
    \/ WriteCache
    \/ UpdateReadme

Spec == Init /\ [][Next]_vars

----------------------------------------------------------------------------
(* The top-repositories selection of calculate_stats (lines 68-83) applied *)
(* to every listing of up to MaxListing repositories                       *)

Listings(maxLen) ==
    UNION {{MkPage(sh, 0) : sh \in [1..n -> RepoShapes]} : n \in 0..maxLen}

InitTop ==
    /\ pc = "top_input"
    /\ Fresh
    /\ fin \in Listings(MaxListing)
    /\ fout = <<>>

SelectTopRepos ==
    /\ pc = "top_input"
    /\ fout' = TopReposData(TopRepos(OwnedRepos(fin)))
    /\ pc' = "top_done"
    /\ UNCHANGED <<userLog, user_data, repos, page, pageLog, total_stars,
                   top_repos, lang_i, language_bytes, langLog, warnings,
                   stats, raised, written, readme_in, readme_out, fin>>

NextTop == SelectTopRepos

SpecTop == InitTop /\ [][NextTop]_vars

----------------------------------------------------------------------------
(* The percentage computation of calculate_stats (lines 89-95) applied to  *)
(* every byte map of up to MaxLangs languages                              *)

LangNames == <<GO, RUST, <<"C">>, <<"R">>, <<"D">>, <<"J">>, <<"V">>, <<"F">>>>

ByteMaps(maxLangs, maxBytes) ==
    UNION {{[i \in 1..n |-> <<LangNames[i], b[i]>>] : b \in [1..n -> 0..maxBytes]} :
              n \in 0..maxLangs}

InitPct ==
    /\ pc = "pct_input"
    /\ Fresh
    /\ fin \in ByteMaps(MaxLangs, MaxBytes)
    /\ fout = <<>>

ComputePercentages ==
    /\ pc = "pct_input"
    /\ fout' = LanguagePercentages(fin)
    /\ pc' = "pct_done"
    /\ UNCHANGED <<userLog, user_data, repos, page, pageLog, total_stars,
                   top_repos, lang_i, language_bytes, langLog, warnings,
                   stats, raised, written, readme_in, readme_out, fin>>

NextPct == ComputePercentages

SpecPct == InitPct /\ [][NextPct]_vars

----------------------------------------------------------------------------
(* The README rewrite (lines 412-431) applied, twice in a row, to every    *)
(* text made of up to MaxFrags fragments                                   *)

Fragments ==
    {DARK_SVG, LIGHT_SVG, <<"?", "v", "=", "o", "l", "d">>, <<QUOTE>>, <<")">>, <<" ">>,
     <<"\n">>, <<"x">>}

Documents(maxFrags) ==
    UNION {{Concat(fs) : fs \in [1..n -> Fragments]} : n \in 0..maxFrags}

InitReadme ==
    /\ pc = "readme_input"
    /\ Fresh
    /\ fin \in Documents(MaxFrags)
    /\ fout = <<>>

RewriteOnce ==
    /\ pc = "readme_input"
    /\ fout' = <<RewriteReadme(fin, CACHE_TS)>>
    /\ pc' = "readme_once"
    /\ UNCHANGED <<userLog, user_data, repos, page, pageLog, total_stars,
                   top_repos, lang_i, language_bytes, langLog, warnings,
                   stats, raised, written, readme_in, readme_out, fin>>

RewriteAgain ==
    /\ pc = "readme_once"
    /\ fout' = Append(fout, RewriteReadme(fout[1], CACHE_TS))
    /\ pc' = "readme_twice"
    /\ UNCHANGED <<userLog, user_data, repos, page, pageLog, total_stars,
                   top_repos, lang_i, language_bytes, langLog, warnings,
                   stats, raised, written, readme_in, readme_out, fin>>

NextReadme == RewriteOnce \/ RewriteAgain

SpecReadme == InitReadme /\ [][NextReadme]_vars

----------------------------------------------------------------------------
(* generate_svg applied to stats records whose text fields carry markup    *)
(* characters                                                              *)

SvgNames == {<<>>, <<"<", "b", ">", "&", "'", "\"">>}

LongDescription(tail) == Rep("a", DESC_MAX - 1) \o tail

SvgRepos ==
    <<[name |-> <<"r", "1">>, description |-> NO_DESCRIPTION, stars |-> 0,
       language |-> NO_LANGUAGE],
      [name |-> <<"a", "<", "b">>, description |-> <<"<", "s", "c", "r", "i", "p", "t", ">">>,
       stars |-> 5, language |-> <<"C", "+", "+">>],
      [name |-> <<"r", "&", "d">>, description |-> LongDescription(<<"<">>),
       stars |-> 12, language |-> <<"<", "L", ">">>],
      [name |-> <<"q", "\"">>, description |-> LongDescription(<<"&", "<", ">">>),
       stars |-> 0, language |-> <<"F", "'">>]>>

SvgTopRepos(maxRepos) ==
    UNION {[1..n -> {SvgRepos[k] : k \in 1..Len(SvgRepos)}] : n \in 0..maxRepos}
    \cup {SvgRepos}

SvgLangNames == <<GO, <<"C", "<", "&", ">">>, <<"'", "q", "'">>>>

\* byte maps over distinct languages, in any insertion order
SvgByteMaps(maxLangs) ==
    UNION {{[i \in 1..n |-> <<SvgLangNames[o[i]], b[i]>>] :
               o \in {f \in [1..n -> 1..Len(SvgLangNames)] :
                         \A i, j \in 1..n : i # j => f[i] # f[j]},
               b \in [1..n -> 1..2]} :
              n \in 0..maxLangs}

SvgStats(maxRepos, maxLangs) ==
    {[username |-> USERNAME, name |-> n, bio |-> <<>>, followers |-> 10,
      following |-> 5, public_repos |-> 2, total_stars |-> 0,
      language_percentages |-> LanguagePercentages(m), top_repos |-> t,
      updated_at |-> NOW] :
        n \in SvgNames, m \in SvgByteMaps(maxLangs), t \in SvgTopRepos(maxRepos)}

InitSvg ==
    /\ pc = "svg_input"
    /\ Fresh
    /\ fin \in SvgStats(MaxSvgRepos, MaxSvgLangs)
    /\ fout = <<>>

RenderSvg ==
    /\ pc = "svg_input"
    /\ \E theme \in {"light", "dark"} : fout' = <<GenerateSvg(fin, theme)>>
    /\ pc' = "svg_done"
    /\ UNCHANGED <<userLog, user_data, repos, page, pageLog, total_stars,
                   top_repos, lang_i, language_bytes, langLog, warnings,
                   stats, raised, written, readme_in, readme_out, fin>>

NextSvg == RenderSvg

SpecSvg == InitSvg /\ [][NextSvg]_vars

----------------------------------------------------------------------------
(* Properties of the run *)

RECURSIVE SumOver(_, _)
SumOver(S, f) ==
    IF S = {} THEN 0
    ELSE LET x == CHOOSE y \in S : TRUE IN f[x] + SumOver(S \ {x}, f)

NonForks == {i \in 1..Len(repos) : ~repos[i].fork}

Forks == {i \in 1..Len(repos) : repos[i].fork}

AfterOwned == {"fetch_language_stats", "write_light", "write_dark",
               "write_cache", "update_readme", "done"}

LangsOf(data) == {data[j].lang : j \in 1..Len(data)}

\* C1: forks never contribute: the star total is the sum over the non-fork
\* repositories of the listing, every top repository is a non-fork
\* repository, no language request is issued for a fork, and every language
\* of the byte map comes from the answer to a non-fork repository's request.
C1_ForksNeverContribute ==
    /\ pc \in AfterOwned =>
        /\ total_stars = SumOver(NonForks, [i \in NonForks |-> repos[i].stargazers_count])
        /\ \A t \in 1..Len(top_repos) :
              \E i \in NonForks : repos[i].name = top_repos[t].name
    /\ stats # <<>> =>
        /\ stats[1].total_stars =
              SumOver(NonForks, [i \in NonForks |-> repos[i].stargazers_count])
        /\ \A t \in 1..Len(stats[1].top_repos) :
              \E i \in NonForks : repos[i].name = stats[1].top_repos[t].name
    /\ \A e \in 1..Len(langLog) : langLog[e].repo \in NonForks
    /\ \A l \in 1..Len(language_bytes) :
          \E e \in 1..Len(langLog) :
             /\ langLog[e].repo \in NonForks
             /\ language_bytes[l][1] \in LangsOf(langLog[e].resp.data)

\* a finished aggregation over a listing whose fork has at least as many
\* stars as every other repository, next to a non-fork with a language answer
C1_Witness ==
    /\ stats # <<>>
    /\ NonForks # {}
    /\ language_bytes # <<>>
    /\ \E f \in Forks :
          /\ repos[f].stargazers_count > 0
          /\ repos[f].language # <<>>
          /\ \A i \in 1..Len(repos) :
                repos[f].stargazers_count >= repos[i].stargazers_count

ReposReturned ==
    /\ pageLog # <<>>
    /\ pageLog[Len(pageLog)].resp.ok
    /\ pageLog[Len(pageLog)].resp.data = <<>>

\* C2: fetch_repos stops at the first empty page: the requests carry page
\* numbers 1, 2, ... in order with page size 100, no request follows an
\* empty page, and with k non-empty pages the call has made exactly k + 1
\* requests and returns the concatenation of the k pages in request order.
C2_PaginationStopsAtEmptyPage ==
    /\ \A i \in 1..Len(pageLog) :
          /\ pageLog[i].req = [page |-> i, per_page |-> 100]
          /\ i < Len(pageLog) => pageLog[i].resp.ok /\ pageLog[i].resp.data # <<>>
    /\ ReposReturned =>
          /\ Len(pageLog) = NonEmptyPages(pageLog) + 1
          /\ repos = Concat([i \in 1..Len(pageLog) |-> pageLog[i].resp.data])
          /\ pc # "fetch_repos"
    /\ pc \in AfterOwned \cup {"owned"} => ReposReturned

\* two non-empty pages, then the empty one: three requests
C2_Witness ==
    /\ ReposReturned
    /\ Len(pageLog) = 3
    /\ Len(repos) = Len(pageLog[1].resp.data) + Len(pageLog[2].resp.data)
    /\ Len(repos) >= 2
    /\ pc = "owned"

FetchSucceeded(resp) ==
    resp.ok /\ \A j \in 1..Len(resp.data) : resp.data[j].numeric

BytesIn(resp, lang) ==
    SumOver({j \in 1..Len(resp.data) : resp.data[j].lang = lang},
            [j \in 1..Len(resp.data) |-> resp.data[j].bytes])

Succeeded == {e \in 1..Len(langLog) : FetchSucceeded(langLog[e].resp)}

AllLangs == UNION {LangsOf(r.data) : r \in LangResponses}

\* C3: a failed language fetch is isolated: every non-fork repository the
\* loop has passed got its request, each failure left a warning and nothing
\* else, and the byte map is the per-language sum over exactly the
\* repositories whose fetch succeeded.
C3_FailedFetchContributesNothing ==
    /\ {langLog[e].repo : e \in 1..Len(langLog)} = {i \in NonForks : i < lang_i}
    /\ Len(warnings) = Len(langLog) - Cardinality(Succeeded)
    /\ \A lang \in AllLangs :
          /\ DictGet(language_bytes, lang, 0) =
                SumOver(Succeeded, [e \in Succeeded |-> BytesIn(langLog[e].resp, lang)])
          /\ DictHas(language_bytes, lang) =>
                \E e \in Succeeded : lang \in LangsOf(langLog[e].resp.data)

ProfileFailed == userLog # <<>> /\ ~userLog[1].ok

PageFailed == \E i \in 1..Len(pageLog) : ~pageLog[i].resp.ok

\* C4: a failed profile request or a failed page request fails the whole
\* aggregation: no stats record, nothing computed from the pages fetched
\* before, no language request, the HTTP error re-raised from main, and no
\* file written.
C4_FetchFailureAbortsRun ==
    (ProfileFailed \/ PageFailed) =>
        /\ pc = "failed"
        /\ raised = "HTTPError"
        /\ stats = <<>>
        /\ total_stars = 0 /\ top_repos = <<>>
        /\ langLog = <<>> /\ language_bytes = <<>>
        /\ written = <<>>
        /\ readme_out = <<>>

\* the second page request fails after a first page with a starred non-fork
C4_Witness ==
    /\ pc = "failed"
    /\ Len(pageLog) = 2
    /\ ~pageLog[2].resp.ok
    /\ \E i \in NonForks : repos[i].stargazers_count > 0

ProfileLacksField ==
    /\ userLog # <<>>
    /\ userLog[1].ok
    /\ ~({"followers", "following", "public_repos"} \subseteq DOMAIN userLog[1].data)

\* C10 as stated: with a required profile field missing, the profile fetch
\* itself fails: no page request and no language request is ever issued and
\* no stats record is produced.
C10_MissingFieldFailsInProfileFetch ==
    ProfileLacksField =>
        /\ pageLog = <<>>
        /\ langLog = <<>>
        /\ stats = <<>>

\* C10 amended: with a required profile field missing, the profile fetch
\* succeeds and the run goes on to the listing and the language requests;
\* the missing field raises KeyError only when the stats record is built,
\* after fetch_repos has returned and every non-fork repository has had its
\* language request; a failing page request aborts earlier.  Either way no
\* stats record is produced and nothing is written.
C10_MissingFieldFailsAtAssembly ==
    ProfileLacksField =>
        /\ stats = <<>>
        /\ written = <<>>
        /\ pc \in {"fetch_repos", "owned", "fetch_language_stats", "failed"}
        /\ pc = "failed" => raised \in {"KeyError", "HTTPError"}
        /\ raised = "HTTPError" => PageFailed
        /\ raised = "KeyError" =>
              /\ pc = "failed"
              /\ ReposReturned
              /\ {langLog[e].repo : e \in 1..Len(langLog)} = NonForks

\* the KeyError arrives after a listing and a language request
C10_Witness ==
    /\ ProfileLacksField
    /\ raised = "KeyError"
    /\ Len(pageLog) >= 2
    /\ langLog # <<>>

\* the outputs of main in the order of lines 456-475
OutputOrder == <<"light_mode.svg", "dark_mode.svg", "cache/stats.json", "README.md">>

Aggregating == pc \in {"fetch_user_data", "fetch_repos", "owned", "fetch_language_stats"}

\* how many outputs exist when the run stands before each output step
OutputsBefore ==
    [write_light |-> 0, write_dark |-> 1, write_cache |-> 2, update_readme |-> 3]

OutputsInOrder ==
    /\ Len(written) <= Len(OutputOrder)
    /\ written = SubSeq(OutputOrder, 1, Len(written))
    /\ written # <<>> => stats # <<>>
    /\ Aggregating => written = <<>>
    /\ pc \in DOMAIN OutputsBefore => Len(written) = OutputsBefore[pc] /\ raised = None
    /\ pc = "failed" => raised # None
    /\ pc = "done" =>
          /\ raised = None
          /\ IF readme_in = <<>>
             THEN written = SubSeq(OutputOrder, 1, 3) /\ readme_out = <<>>
             ELSE written = OutputOrder

FailureKeepsOutputs ==
    /\ pc # "failed"
    /\ pc' = "failed" => written' = written /\ raised' # None
    /\ \/ written' = written
       \/ written' = Append(written, OutputOrder[Len(written) + 1])

\* C11: the outputs appear in the order light_mode.svg, dark_mode.svg,
\* cache/stats.json, README.md and only once the stats record exists; a step
\* that fails leaves the outputs of the earlier steps as they are, re-raises
\* the error, and no step follows it; an absent README.md ends the run
\* normally with the first three outputs written and nothing raised.
C11_OutputsInOrderFailureKeepsEarlier ==
    /\ []OutputsInOrder
    /\ [][FailureKeepsOutputs]_vars

\* the write of cache/stats.json failed with both SVG files in place
C11_Witness ==
    /\ pc = "failed"
    /\ raised = "OSError"
    /\ written = <<"light_mode.svg", "dark_mode.svg">>
    /\ stats # <<>>

----------------------------------------------------------------------------
(* Properties of the top-repositories selection *)

ListedNonForks == {i \in 1..Len(fin) : ~fin[i].fork}

\* position in the listing of the repository an output entry names
PosOf(entry) == CHOOSE i \in 1..Len(fin) : fin[i].name = entry.name

Selected == {PosOf(fout[t]) : t \in 1..Len(fout)}

\* a before b in the order: more stars, or as many and listed earlier
RanksBefore(a, b) ==
    \/ fin[a].stargazers_count > fin[b].stargazers_count
    \/ fin[a].stargazers_count = fin[b].stargazers_count /\ a < b

\* C5: the selection holds min(3, number of non-forks) non-fork
\* repositories, by stars descending, equal stars in listing order, and
\* every non-fork left out ranks after every selected one (a tie at the
\* cut-off goes to the earlier-listed repository).
C5_TopReposStable ==
    pc = "top_done" =>
        /\ Len(fout) = Min(3, Cardinality(ListedNonForks))
        /\ \A t \in 1..Len(fout) :
              /\ \E i \in ListedNonForks : fin[i].name = fout[t].name
              /\ fout[t].stars = fin[PosOf(fout[t])].stargazers_count
        /\ \A t, u \in 1..Len(fout) :
              t < u => RanksBefore(PosOf(fout[t]), PosOf(fout[u]))
        /\ \A i \in ListedNonForks \ Selected :
              \A j \in Selected : RanksBefore(j, i)

\* four or more non-forks, the last selected repository tied with one that
\* is left out, the first two tied as well
C5_Witness ==
    /\ pc = "top_done"
    /\ Len(fout) = 3
    /\ \E i \in ListedNonForks \ Selected :
          fin[i].stargazers_count = fout[3].stars
    /\ fout[1].stars = fout[2].stars

----------------------------------------------------------------------------
(* Properties of the percentage computation *)

MapTotal == SumOver(1..Len(fin), [i \in 1..Len(fin) |-> fin[i][2]])

BytesOfLang(lang) == fin[CHOOSE i \in 1..Len(fin) : fin[i][1] = lang][2]

Retained == {fout[t].lang : t \in 1..Len(fout)}

Truncated == {i \in 1..Len(fin) : fin[i][1] \notin Retained}

NumSum == SumOver(1..Len(fout), [t \in 1..Len(fout) |-> fout[t].num])

\* C6: with total bytes > 0 the distribution holds min(5, number of
\* languages) distinct languages, the ones with the largest byte counts in
\* descending order, each at bytes * 100 / total over all languages; the
\* retained percentages sum to at most 100, and to exactly 100 only if every
\* truncated language has zero bytes.
C6_PercentagesOverAllLanguages ==
    (pc = "pct_done" /\ MapTotal > 0) =>
        /\ Len(fout) = Min(5, Len(fin))
        /\ Cardinality(Retained) = Len(fout)
        /\ \A t \in 1..Len(fout) :
              /\ \E i \in 1..Len(fin) : fin[i][1] = fout[t].lang
              /\ fout[t].num = BytesOfLang(fout[t].lang) * 100
              /\ fout[t].den = MapTotal
        /\ \A t \in 1..(Len(fout) - 1) : fout[t].num >= fout[t + 1].num
        /\ \A i \in Truncated :
              \A t \in 1..Len(fout) : fin[i][2] <= BytesOfLang(fout[t].lang)
        /\ NumSum <= 100 * MapTotal
        /\ NumSum = 100 * MapTotal => \A i \in Truncated : fin[i][2] = 0

\* six languages with non-zero bytes: one is truncated and the retained
\* percentages sum to less than 100
C6_Witness ==
    /\ pc = "pct_done"
    /\ Len(fin) > 5
    /\ \A i \in 1..Len(fin) : fin[i][2] > 0
    /\ Len(fout) = 5
    /\ NumSum < 100 * MapTotal

\* C7 as stated: with a total of zero bytes every language of the byte map
\* (up to the top 5) is reported, at 0 percent.
C7_ZeroTotalReportsZeroPercent ==
    (pc = "pct_done" /\ MapTotal = 0) =>
        /\ Len(fout) = Min(5, Len(fin))
        /\ \A t \in 1..Len(fout) : fout[t].num = 0

\* C7 amended: with a total of zero bytes the computation divides by
\* nothing and the language distribution is empty, whether the byte map is
\* empty or holds languages with zero bytes; no reported percentage ever has
\* a zero denominator.
C7_ZeroTotalEmptyDistribution ==
    pc = "pct_done" =>
        /\ MapTotal = 0 => fout = <<>>
        /\ \A t \in 1..Len(fout) : fout[t].den > 0

\* a byte map with languages, all at zero bytes
C7_Witness ==
    /\ pc = "pct_done"
    /\ Len(fin) >= 2
    /\ MapTotal = 0
    /\ fout = <<>>

----------------------------------------------------------------------------
(* Properties of the README rewrite *)

\* what ends a reference in a document: a quote, a closing parenthesis,
\* white space
Delimiters == {QUOTE, ")", " ", "\n"}

SuffixRun(s, pos) ==
    LET stops == {j \in pos..Len(s) : s[j] \in Delimiters}
    IN  IF stops = {} THEN Len(s) - pos + 1
        ELSE (CHOOSE j \in stops : \A k \in stops : j <= k) - pos

\* the end of a reference to name at pos (the name, with its ?v=... suffix
\* up to the next delimiter if it has one), 0 if there is none
ReferenceEnd(s, pos, name) ==
    IF ~StartsWithAt(s, pos, name) THEN 0
    ELSE LET q == pos + Len(name)
         IN  IF StartsWithAt(s, q, QV) /\ SuffixRun(s, q + Len(QV)) >= 1
             THEN q + Len(QV) + SuffixRun(s, q + Len(QV))
             ELSE q

RECURSIVE WithSuffixFrom(_, _, _, _)
WithSuffixFrom(s, pos, name, ts) ==
    LET refs == {j \in pos..Len(s) : ReferenceEnd(s, j, name) # 0}
    IN  IF refs = {} THEN SubSeq(s, pos, Len(s))
        ELSE SubSeq(s, pos, MinOf(refs) - 1) \o name \o QV \o ts \o
             WithSuffixFrom(s, ReferenceEnd(s, MinOf(refs), name), name, ts)

\* the document with every reference to either file carrying ?v=ts and all
\* other text as it was
OnlySuffixesReplaced(s, ts) ==
    WithSuffixFrom(WithSuffixFrom(s, 1, DARK_SVG, ts), 1, LIGHT_SVG, ts)

\* C8: the rewrite turns every reference to dark_mode.svg and
\* light_mode.svg, bare or with a ?v=... suffix, into <filename>?v=<timestamp>
\* and alters no other text (what follows a reference is preserved); a second
\* rewrite with the same timestamp changes nothing.
C8_RewriteReplacesOnlySuffix ==
    /\ pc \in {"readme_once", "readme_twice"} =>
          fout[1] = OnlySuffixesReplaced(fin, CACHE_TS)
    /\ pc = "readme_twice" => fout[2] = fout[1]

----------------------------------------------------------------------------
(* Properties of generate_svg *)

Entities ==
    <<<<<<"&", "a", "m", "p", ";">>, "&">>,
      <<<<"&", "l", "t", ";">>, "<">>,
      <<<<"&", "g", "t", ";">>, ">">>,
      <<<<"&", "q", "u", "o", "t", ";">>, QUOTE>>,
      <<<<"&", "#", "x", "2", "7", ";">>, "'">>>>

EntityAt(s, pos) == {k \in 1..Len(Entities) : StartsWithAt(s, pos, Entities[k][1])}

\* no raw markup character: no <, >, " or ', and every & opens an entity
NoRawMarkup(s) ==
    \A i \in 1..Len(s) :
       /\ s[i] \notin {"<", ">", QUOTE, "'"}
       /\ s[i] = "&" => EntityAt(s, i) # {}

RECURSIVE UnescapeFrom(_, _)
UnescapeFrom(s, pos) ==
    LET at == {j \in pos..Len(s) : EntityAt(s, j) # {}}
    IN  IF at = {} THEN SubSeq(s, pos, Len(s))
        ELSE LET j == MinOf(at)
                 k == CHOOSE e \in EntityAt(s, j) : TRUE
             IN  SubSeq(s, pos, j - 1) \o <<Entities[k][2]>> \o
                 UnescapeFrom(s, j + Len(Entities[k][1]))

FieldTexts(doc) ==
    UNION {{doc.elems[e].parts[q].text :
               q \in {q \in 1..Len(doc.elems[e].parts) :
                         doc.elems[e].parts[q].src = "field"}} :
              e \in 1..Len(doc.elems)}

Shortened(d) ==
    IF Len(d) <= 70 THEN d
    ELSE [i \in 1..73 |-> IF i <= 70 THEN d[i] ELSE "."]

\* the strings of the stats record that the document shows
ShownStrings(st) ==
    {IF st.name = <<>> THEN st.username ELSE st.name, st.updated_at}
    \cup {st.language_percentages[i].lang : i \in 1..Len(st.language_percentages)}
    \cup UNION {{st.top_repos[i].name, Shortened(st.top_repos[i].description),
                 st.top_repos[i].language} :
                   i \in 1..Min(3, Len(st.top_repos))}

\* C9: every string of stats that generate_svg puts into the document
\* (display name, repository names, descriptions cut to 70 characters,
\* language tags, language names, timestamp) is there escaped: it holds no
\* raw <, >, & or quote, and unescaping gives back exactly the strings shown.
C9_FieldsEscaped ==
    pc = "svg_done" =>
        /\ \A t \in FieldTexts(fout[1]) : NoRawMarkup(t)
        /\ {UnescapeFrom(t, 1) : t \in FieldTexts(fout[1])} = ShownStrings(fin)

\* a description with <script>, a name with quotes, a long description
\* whose cut falls before markup characters
C9_Witness ==
    /\ pc = "svg_done"
    /\ HtmlEscape(<<"<", "s", "c", "r", "i", "p", "t", ">">>) \in FieldTexts(fout[1])
    /\ fin.name # <<>>
    /\ \E i \in 1..Len(fin.top_repos) : Len(fin.top_repos[i].description) > 70
    /\ fin.language_percentages # <<>>

====
